---- MODULE Spec2Model ----
(***************************************************************************)
(* Model of src/verify_gaps.py, the verifier for contraction-mapping       *)
(* smallness conditions: the float helpers (le_verified, outward_mul,      *)
(* outward_add, outward_exp), the three checks (core_banach_ok, ledger_ok, *)
(* coupled_ok), compute_eps and main.                                      *)
(*                                                                         *)
(* Python floats are modelled by a small binary floating-point format with *)
(* the structure of IEEE-754 binary64: a 6-bit significand, round to       *)
(* nearest (ties to even), gradual underflow, and 1.0 three binades above  *)
(* the subnormal range.  A float is the integer number of quanta           *)
(* (1/512) it is worth, so 1.0 is 512 and the floats are the integers      *)
(* m * 2^j with m < 64.  Inputs are kept small enough that no operation    *)
(* overflows; infinities and NaN are outside the model.                    *)
(***************************************************************************)
EXTENDS Integers, Sequences, FiniteSets, TLC

\* ------------------------------------------------------------------------
\* The float format
\* ------------------------------------------------------------------------

\* Every integer below Subnormal quanta is a float (spacing one quantum).
Subnormal == 2 ^ 6

\* 1.0 in quanta.
One == 2 ^ 9

Abs(n) == IF n < 0 THEN -n ELSE n

\* The spacing of the floats in the binade that holds magnitude a >= 0.
RECURSIVE Ulp(_)
Ulp(a) == IF a < Subnormal THEN 1 ELSE 2 * Ulp(a \div 2)

IsFloat(n) == Abs(n) % Ulp(Abs(n)) = 0

\* num/den >= 0 (in quanta) rounded to the nearest float, ties to even.
RoundPos(num, den) ==
  LET a  == num \div den
      u  == Ulp(a)
      lo == (a \div u) * u
      r2 == 2 * (num - lo * den)
  IN  IF r2 < u * den THEN lo
      ELSE IF r2 > u * den THEN lo + u
      ELSE IF (lo \div u) % 2 = 0 THEN lo ELSE lo + u

Round(num, den) == IF num >= 0 THEN RoundPos(num, den) ELSE -RoundPos(-num, den)

\* a * b, a + b, a - b as Python computes them on floats: the exact result, rounded.
FMul(a, b) == Round(a * b, One)
FAdd(a, b) == Round(a + b, 1)
FSub(a, b) == Round(a - b, 1)

\* math.nextafter(x, +inf) and math.nextafter(x, -inf) (numpy's nextafter is the same).
NextUp(x) == IF x >= 0 THEN x + Ulp(x) ELSE -((-x) - Ulp((-x) - 1))
NextDown(x) == -NextUp(-x)

Max2(a, b) == IF a >= b THEN a ELSE b
Min2(a, b) == IF a <= b THEN a ELSE b

\* The place of the float n >= 0 among the non-negative floats, counted from 0.
RECURSIVE FloatIndex(_)
FloatIndex(n) == IF n < Subnormal THEN n ELSE 32 + FloatIndex(n \div 2)

\* math.exp(x), correctly rounded, for the floats 0 <= x <= 2.0 in float order.
ExpPos ==
  << 512, 512, 512, 512, 512, 512, 512, 512, 528, 528, 528, 528, 528, 528, 528, 528,
     528, 528, 528, 528, 528, 528, 528, 528, 544, 544, 544, 544, 544, 544, 544, 544,
     544, 544, 544, 544, 544, 544, 544, 560, 560, 560, 560, 560, 560, 560, 560, 560,
     560, 560, 560, 560, 560, 560, 576, 576, 576, 576, 576, 576, 576, 576, 576, 576,
     576, 576, 592, 592, 592, 592, 592, 592, 592, 608, 608, 608, 608, 608, 608, 608,
     624, 624, 624, 624, 624, 624, 640, 640, 640, 640, 640, 640, 640, 656, 656, 656,
     656, 656, 672, 672, 672, 688, 688, 688, 704, 704, 704, 720, 720, 720, 736, 736,
     752, 752, 752, 768, 768, 768, 784, 784, 800, 800, 800, 816, 816, 832, 832, 832,
     848, 864, 864, 880, 896, 912, 928, 944, 960, 976, 992, 1008, 1024, 1024, 1056, 1056,
     1088, 1088, 1120, 1120, 1152, 1184, 1184, 1216, 1216, 1248, 1280, 1280, 1312, 1344, 1344, 1376,
     1376, 1440, 1472, 1536, 1568, 1632, 1664, 1728, 1792, 1856, 1888, 1952, 2016, 2112, 2176, 2240,
     2304, 2368, 2432, 2496, 2624, 2688, 2752, 2880, 2944, 3008, 3136, 3264, 3328, 3456, 3584, 3648,
     3776 >>

\* math.exp(-x), correctly rounded, for the floats 0 <= x <= 2.0 in float order.
ExpNeg ==
  << 512, 512, 512, 512, 512, 504, 504, 504, 504, 504, 504, 504, 504, 496, 496, 496,
     496, 496, 496, 496, 496, 488, 488, 488, 488, 488, 488, 488, 488, 480, 480, 480,
     480, 480, 480, 480, 480, 480, 472, 472, 472, 472, 472, 472, 472, 472, 472, 464,
     464, 464, 464, 464, 464, 464, 464, 456, 456, 456, 456, 456, 456, 456, 456, 456,
     448, 448, 448, 448, 448, 440, 440, 440, 440, 440, 432, 432, 432, 432, 424, 424,
     424, 424, 424, 416, 416, 416, 416, 416, 408, 408, 408, 408, 408, 400, 400, 400,
     400, 392, 392, 392, 384, 384, 384, 376, 376, 368, 368, 368, 360, 360, 360, 352,
     352, 352, 344, 344, 344, 336, 336, 336, 328, 328, 328, 320, 320, 320, 312, 312,
     312, 304, 304, 296, 288, 288, 280, 280, 272, 272, 264, 264, 256, 252, 248, 244,
     240, 240, 236, 232, 228, 224, 220, 216, 212, 212, 208, 204, 200, 196, 196, 192,
     188, 184, 176, 172, 168, 160, 156, 152, 148, 144, 136, 132, 128, 126, 122, 118,
     114, 110, 108, 104, 100, 98, 94, 92, 88, 86, 84, 82, 78, 76, 74, 72,
     70 >>

\* math.exp on a float |x| <= 2.0.
FExp(x) == IF x >= 0 THEN ExpPos[FloatIndex(x) + 1] ELSE ExpNeg[FloatIndex(-x) + 1]

\* floor(sqrt(n)) for lo*lo <= n < hi*hi, by bisection.
RECURSIVE ISqrt(_, _, _)
ISqrt(n, lo, hi) ==
  IF hi - lo <= 1 THEN lo
  ELSE LET mid == (lo + hi) \div 2
       IN  IF mid * mid <= n THEN ISqrt(n, mid, hi) ELSE ISqrt(n, lo, mid)

\* math.sqrt on a float x >= 0: sqrt(x/One) in quanta is sqrt(x*One), rounded
\* to the nearest float (sqrt is correctly rounded).
FSqrt(x) ==
  LET n  == x * One
      s  == ISqrt(n, 0, 4096)
      u  == Ulp(s)
      lo == (s \div u) * u
      m2 == 2 * lo + u
  IN  IF 4 * n < m2 * m2 THEN lo
      ELSE IF 4 * n > m2 * m2 THEN lo + u
      ELSE IF (lo \div u) % 2 = 0 THEN lo ELSE lo + u

SetMax(S) == CHOOSE x \in S : \A y \in S : y <= x
SetMin(S) == CHOOSE x \in S : \A y \in S : x <= y

\* ------------------------------------------------------------------------
\* Verified numeric helpers
\* ------------------------------------------------------------------------

\* le_verified with the nudges turned inward (a up, b down).
le_verified_inward(a, b) == NextUp(a) <= NextDown(b)

le_verified(a, b) == NextDown(a) <= NextUp(b)

outward_mul(a, b) ==
  LET cands == {FMul(a[1], b[1]), FMul(a[1], b[2]), FMul(a[2], b[1]), FMul(a[2], b[2])}
  IN  <<NextDown(SetMin(cands)), NextUp(SetMax(cands))>>

outward_add(a, b) == <<NextDown(FAdd(a[1], b[1])), NextUp(FAdd(a[2], b[2]))>>

outward_exp(x) == <<NextDown(FExp(x[1])), NextUp(FExp(x[2]))>>

\* ------------------------------------------------------------------------
\* Core checks.  A manifest is a function from the keys it holds to their
\* values; d[k] on a key that is absent raises KeyError.
\* ------------------------------------------------------------------------

KeyError == [exc |-> TRUE, ok |-> FALSE, gap |-> 0]
Returned(ok, gap) == [exc |-> FALSE, ok |-> ok, gap |-> gap]

Has(d, k) == k \in DOMAIN d

\* ok = le_verified(lhs, rhs) if verified else (lhs <= rhs)
ScalarLe(lhs_num, rhs_num, verified) ==
  IF verified THEN le_verified(lhs_num, rhs_num) ELSE lhs_num <= rhs_num

\* lhs_num = gamma * (1.0 + t * cP) with the sign of the t term slipped.
ScalarLhsMinus(gamma, t, cP) == FMul(gamma, FSub(One, FMul(t, cP)))

\* lhs_num = gamma * (1.0 + t * cP)
ScalarLhs(gamma, t, cP) == FMul(gamma, FAdd(One, FMul(t, cP)))

core_banach_ok(d, eps, cP, use_interval, verified) ==
  IF ~Has(d, "core_params") THEN KeyError
  ELSE IF ~Has(d["core_params"], "gamma") THEN KeyError
  ELSE IF ~Has(d["core_params"], "t") THEN KeyError
  ELSE
    LET gamma == d["core_params"]["gamma"]
        t     == d["core_params"]["t"]
    IN  IF use_interval
        THEN LET lhs == outward_mul(<<gamma, gamma>>,
                                   outward_add(<<One, One>>, <<FMul(t, cP), FMul(t, cP)>>))
                 rhs == <<FSub(One, eps), FSub(One, eps)>>
             IN  Returned(lhs[2] <= rhs[1], FSub(lhs[2], rhs[1]))
        ELSE LET lhs_num == ScalarLhs(gamma, t, cP)
                 rhs_num == FSub(One, eps)
             IN  Returned(ScalarLe(lhs_num, rhs_num, verified), FSub(lhs_num, rhs_num))

\* worst_gap = -1e9: far below every gap the bounded inputs produce; held as
\* the float -2^30 quanta, which is below every gap of the model likewise.
WorstGapInit == -(2 ^ 30)

\* d.get("steps", [])
Steps(d) == IF Has(d, "steps") THEN d["steps"] ELSE <<>>

\* One pass of the body of ledger_ok's loop on `step`: its verdict and gap.
ledger_step(step, eps, cP, sigma, use_interval, verified) ==
  IF ~Has(step, "gamma") THEN KeyError
  ELSE IF ~Has(step, "t") THEN KeyError
  ELSE IF ~Has(step, "delta_tau") THEN KeyError
  ELSE
    LET g  == step["gamma"]
        t  == step["t"]
        dt == step["delta_tau"]
    IN  IF use_interval
        THEN LET lhs0  == outward_mul(<<g, g>>,
                                     outward_add(<<One, One>>, <<FMul(t, cP), FMul(t, cP)>>))
                 decay == outward_exp(<<FMul(-sigma, dt), FMul(-sigma, dt)>>)
                 lhs   == outward_mul(lhs0, decay)
                 rhs   == <<FSub(One, eps), FSub(One, eps)>>
             IN  Returned(lhs[2] <= rhs[1], FSub(lhs[2], rhs[1]))
        ELSE LET lhs_num == FMul(ScalarLhs(g, t, cP), FExp(FMul(-sigma, dt)))
                 rhs_num == FSub(One, eps)
             IN  Returned(ScalarLe(lhs_num, rhs_num, verified), FSub(lhs_num, rhs_num))

\* worst_gap = max(worst_gap, gap)
AccWorst(worst_gap, gap) == Max2(worst_gap, gap)

\* ok_all = ok: the last step's verdict alone.
AccOkLast(ok_all, ok) == ok

\* if not ok: ok_all = False
AccOk(ok_all, ok) == IF ~ok THEN FALSE ELSE ok_all

\* eps_eff = m - coupling, also on a fail.
EpsEffRaw(ok, m, coupling) == FSub(m, coupling)

\* eps_eff = m - coupling if ok else 0.0
EpsEff(ok, m, coupling) == IF ok THEN FSub(m, coupling) ELSE 0

coupled_ok(d) ==
  IF ~Has(d, "stream_params") THEN KeyError
  ELSE LET sp == d["stream_params"]
       IN  IF ~Has(sp, "kappa1") \/ ~Has(sp, "kappa2") \/ ~Has(sp, "eta1") \/ ~Has(sp, "eta2")
           THEN KeyError
           ELSE LET k1 == sp["kappa1"]
                    k2 == sp["kappa2"]
                    e1 == sp["eta1"]
                    e2 == sp["eta2"]
                    coupling == FMul(2 * One, FSqrt(FMul(Max2(e1, 0), Max2(e2, 0))))
                    m  == Min2(k1, k2)
                    ok == m > coupling
                IN  Returned(ok, EpsEff(ok, m, coupling))

\* ------------------------------------------------------------------------
\* eps from witness parameters
\* ------------------------------------------------------------------------

\* The defaults of compute_eps, of main's sigma and of --cP, in quanta
\* (0.99 -> 504/512, 1.0 -> 512/512, 0.1 -> 51/512: the nearest floats).
DefaultAlpha == 504
DefaultBeta == 512
DefaultSigma == 512
DefaultDeltaTauMin == 51
DefaultLedgerSigma == 512
DefaultCP == 512

\* d.get(k, default)
Get(d, k, default) == IF Has(d, k) THEN d[k] ELSE default

\* alpha ** beta for the exponents 0.0, 1.0 and 2.0
FPow(alpha, beta) ==
  CASE beta = 0 -> One
    [] beta = One -> alpha
    [] beta = 2 * One -> FMul(alpha, alpha)

compute_eps(d) ==
  LET alpha == Get(d, "alpha", DefaultAlpha)
      beta  == Get(d, "beta", DefaultBeta)
      sigma == Get(d, "sigma", DefaultSigma)
      dtmin == Get(d, "delta_tau_min", DefaultDeltaTauMin)
  IN  FMul(FPow(alpha, beta), FExp(FMul(-sigma, dtmin)))

\* eps = args.eps if args.eps else compute_eps(data): an override of 0.0 is dropped.
SelectEpsTruthy(args_eps, d) ==
  IF args_eps # <<>> /\ args_eps[1] # 0 THEN args_eps[1] ELSE compute_eps(d)

\* eps = args.eps if args.eps is not None else compute_eps(data)
\* (args.eps is <<>> for None and <<x>> for the float x)
SelectEps(args_eps, d) == IF args_eps # <<>> THEN args_eps[1] ELSE compute_eps(d)

\* ------------------------------------------------------------------------
\* main
\* ------------------------------------------------------------------------

VARIABLES
  pc,         \* where main is: "start" (arguments parsed), "params", "dispatch", "ledger", "exit"
  args,       \* the parsed command line
  file,       \* what opening and parsing args.json gives: "ok", "missing", "malformed"
  data,       \* the manifest the file holds (main's data once loaded)
  eps, cP, sigma,          \* main's locals
  i, ok_all, worst_gap,    \* ledger_ok's loop: next step (from 1), and its accumulators
  ok, gap,    \* the verdict and margin the check returned
  outcome,    \* "running", "example", "usage", "exception", "verdict"
  exit_code   \* the process exit status, -1 while running

vars == <<pc, args, file, data, eps, cP, sigma, i, ok_all, worst_gap, ok, gap, outcome, exit_code>>

\* An uncaught exception ends the interpreter with status 1.
Raise ==
  /\ pc' = "exit"
  /\ outcome' = "exception"
  /\ exit_code' = 1

\* return 0 if ok else 1
ReturnVerdict(r_ok, r_gap) ==
  /\ pc' = "exit"
  /\ ok' = r_ok
  /\ gap' = r_gap
  /\ outcome' = "verdict"
  /\ exit_code' = IF r_ok THEN 0 ELSE 1

\* if args.create_example: print the sample manifest; return 0
CreateExample ==
  /\ pc = "start"
  /\ args.create_example # "none"
  /\ pc' = "exit"
  /\ outcome' = "example"
  /\ exit_code' = 0
  /\ UNCHANGED <<args, file, data, eps, cP, sigma, i, ok_all, worst_gap, ok, gap>>

\* if not args.json: error; return 2
NoManifest ==
  /\ pc = "start"
  /\ args.create_example = "none"
  /\ ~args.json
  /\ pc' = "exit"
  /\ outcome' = "usage"
  /\ exit_code' = 2
  /\ UNCHANGED <<args, file, data, eps, cP, sigma, i, ok_all, worst_gap, ok, gap>>

\* with open(args.json) as f: data = json.load(f)
LoadManifest ==
  /\ pc = "start"
  /\ args.create_example = "none"
  /\ args.json
  /\ IF file = "ok"
     THEN /\ pc' = "params"
          /\ UNCHANGED <<outcome, exit_code>>
     ELSE Raise
  /\ UNCHANGED <<args, file, data, eps, cP, sigma, i, ok_all, worst_gap, ok, gap>>

\* eps, cP, sigma
ComputeParams ==
  /\ pc = "params"
  /\ eps' = SelectEps(args.eps, data)
  /\ cP' = Get(data, "c_P", args.cP)
  /\ sigma' = Get(data, "sigma", DefaultLedgerSigma)
  /\ pc' = "dispatch"
  /\ UNCHANGED <<args, file, data, i, ok_all, worst_gap, ok, gap, outcome, exit_code>>

\* if args.type == "core_banach"
RunCore ==
  /\ pc = "dispatch"
  /\ args.type = "core_banach"
  /\ LET r == core_banach_ok(data, eps, cP, args.interval, args.verified)
     IN  IF r.exc
         THEN Raise /\ UNCHANGED <<ok, gap>>
         ELSE ReturnVerdict(r.ok, r.gap)
  /\ UNCHANGED <<args, file, data, eps, cP, sigma, i, ok_all, worst_gap>>

\* if args.type == "ledger": ledger_ok is entered; worst_gap = -1e9; ok_all = True
LedgerEnter ==
  /\ pc = "dispatch"
  /\ args.type = "ledger"
  /\ worst_gap' = WorstGapInit
  /\ ok_all' = TRUE
  /\ i' = 1
  /\ pc' = "ledger"
  /\ UNCHANGED <<args, file, data, eps, cP, sigma, ok, gap, outcome, exit_code>>

\* one pass of ledger_ok's loop
LedgerIter ==
  /\ pc = "ledger"
  /\ i <= Len(Steps(data))
  /\ LET r == ledger_step(Steps(data)[i], eps, cP, sigma, args.interval, args.verified)
     IN  IF r.exc
         THEN Raise /\ UNCHANGED <<i, ok_all, worst_gap>>
         ELSE /\ worst_gap' = AccWorst(worst_gap, r.gap)
              /\ ok_all' = AccOk(ok_all, r.ok)
              /\ i' = i + 1
              /\ UNCHANGED <<pc, outcome, exit_code>>
  /\ UNCHANGED <<args, file, data, eps, cP, sigma, ok, gap>>

\* the loop is over: return ok_all, worst_gap; main returns 0 if ok else 1
LedgerReturn ==
  /\ pc = "ledger"
  /\ i > Len(Steps(data))
  /\ ReturnVerdict(ok_all, worst_gap)
  /\ UNCHANGED <<args, file, data, eps, cP, sigma, i, ok_all, worst_gap>>

\* if args.type == "coupled_stream"
RunCoupled ==
  /\ pc = "dispatch"
  /\ args.type = "coupled_stream"
  /\ LET r == coupled_ok(data)
     IN  IF r.exc
         THEN Raise /\ UNCHANGED <<ok, gap>>
         ELSE ReturnVerdict(r.ok, r.gap)
  /\ UNCHANGED <<args, file, data, eps, cP, sigma, i, ok_all, worst_gap>>

\* ------------------------------------------------------------------------
\* Inputs
\* ------------------------------------------------------------------------

\* The longest `steps` list of a manifest.
MaxSteps == 2

RECURSIVE SeqsUpTo(_, _)
SeqsUpTo(S, n) ==
  IF n = 0 THEN {<<>>}
  ELSE LET shorter == SeqsUpTo(S, n - 1)
       IN  shorter \cup {Append(q, x) : q \in {r \in shorter : Len(r) = n - 1}, x \in S}

Modes == {<<FALSE, FALSE>>, <<FALSE, TRUE>>, <<TRUE, FALSE>>, <<TRUE, TRUE>>}
Types == {"core_banach", "ledger", "coupled_stream"}

MakeArgs(json, type, e, c, mode, ex) ==
  [json |-> json, type |-> type, eps |-> e, cP |-> c,
   interval |-> mode[1], verified |-> mode[2], create_example |-> ex]

\* Command lines: a request for an example, no manifest path, or a manifest path
\* with a check type, a mode, and maybe --eps (0.0 or 0.5) and --cP (2.0).
ArgsMain ==
  {MakeArgs(j, "core_banach", <<>>, DefaultCP, <<FALSE, FALSE>>, ex) :
      j \in BOOLEAN, ex \in {"core", "ledger", "coupled"}}
  \cup {MakeArgs(FALSE, ty, <<>>, DefaultCP, <<FALSE, FALSE>>, "none") : ty \in Types}
  \cup {MakeArgs(TRUE, ty, e, c, m, "none") :
      ty \in Types, e \in {<<>>, <<0>>, <<256>>}, c \in {DefaultCP, 1024}, m \in Modes}

\* Witness fields a manifest may hold (0.75, 2.0, 0.5, 0.25), each one or absent.
WitnessValues == [alpha |-> 384, beta |-> 1024, sigma |-> 256, delta_tau_min |-> 128]
Witnesses == {[k \in S |-> WitnessValues[k]] : S \in SUBSET DOMAIN WitnessValues}

\* c_P = 0.5, or absent
CPParts == {[k \in S |-> 256] : S \in SUBSET {"c_P"}}

CoreBlocksMain ==
  {[core_params |-> [gamma |-> g, t |-> 256]] : g \in {32, 512}}
  \cup {[core_params |-> [gamma |-> 32]], [core_params |-> [t |-> 256]]}

\* Two whole steps and one without delta_tau.
StepsMain ==
  {[gamma |-> 32, t |-> 256, delta_tau |-> 128],
   [gamma |-> 1024, t |-> 256, delta_tau |-> 128],
   [gamma |-> 32, t |-> 256]}

LedgerBlocksMain == {[steps |-> q] : q \in SeqsUpTo(StepsMain, MaxSteps)}

\* The spec's two coupled-stream scenarios (0.3, 0.28, 0.04, 0.025 and four times 0.1),
\* and a block without eta2.
StreamBlocksMain ==
  {[stream_params |-> [kappa1 |-> 154, kappa2 |-> 144, eta1 |-> 20, eta2 |-> 13]],
   [stream_params |-> [kappa1 |-> 51, kappa2 |-> 51, eta1 |-> 51, eta2 |-> 51]],
   [stream_params |-> [kappa1 |-> 154, kappa2 |-> 144, eta1 |-> 20]]}

\* A manifest: witness fields, maybe c_P, verification_type, and at most one block.
ManifestsMain ==
  {w @@ c @@ b : w \in Witnesses, c \in CPParts,
     b \in {[verification_type |-> "core_banach"]}
           \cup {[verification_type |-> "core_banach"] @@ x : x \in CoreBlocksMain}
           \cup {[verification_type |-> "ledger"] @@ x : x \in LedgerBlocksMain}
           \cup {[verification_type |-> "coupled_stream"] @@ x : x \in StreamBlocksMain}}

Unstarted ==
  /\ eps = 0 /\ cP = 0 /\ sigma = 0
  /\ i = 0 /\ ok_all = FALSE /\ worst_gap = 0
  /\ ok = FALSE /\ gap = 0
  /\ outcome = "running" /\ exit_code = -1

\* The process starts with its arguments parsed and a file behind args.json.
Init ==
  /\ pc = "start"
  /\ args \in ArgsMain
  /\ \/ file = "ok" /\ args.json /\ args.create_example = "none" /\ data \in ManifestsMain
     \/ file = "ok" /\ data = [verification_type |-> "core_banach"]
     \/ file \in {"missing", "malformed"} /\ data = [verification_type |-> "core_banach"]
  /\ Unstarted

Next ==
  \/ CreateExample
  \/ NoManifest
  \/ LoadManifest
  \/ ComputeParams
  \/ RunCore
  \/ LedgerEnter
  \/ LedgerIter
  \/ LedgerReturn
  \/ RunCoupled

Spec == Init /\ [][Next]_vars

\* ------------------------------------------------------------------------
\* The checks on their own: main at its dispatch, with eps given by --eps and
\* c_P and sigma by the manifest, over wider grids of floats.
\* ------------------------------------------------------------------------

GammaGrid == {-8192, -512, 0, 32, 480, 512, 528, 8192}
TGrid == {-544, -512, 0, 1, 256, 512}
CPGrid == {-512, 0, 480, 512, 1024}
EpsGrid == {0, 8, 256, 488, 504, 512}

LedgerStepGrid == {[gamma |-> g, t |-> t, delta_tau |-> dt] : g \in {512, 528}, t \in {0, 8}, dt \in {0, 64}}
LedgerSigmaGrid == {64, 512}
LedgerEpsGrid == {0, 8, 64}

KappaGrid == {-64, 0, 1, 51, 144, 154}
EtaGrid == {-64, 0, 1, 13, 20, 51}

AtDispatch(type, mode, e, c, sg, block) ==
  /\ pc = "dispatch"
  /\ args = MakeArgs(TRUE, type, <<e>>, DefaultCP, mode, "none")
  /\ file = "ok"
  /\ data = [verification_type |-> type, c_P |-> c, sigma |-> sg] @@ block
  /\ eps = e /\ cP = c /\ sigma = sg
  /\ i = 0 /\ ok_all = FALSE /\ worst_gap = 0
  /\ ok = FALSE /\ gap = 0
  /\ outcome = "running" /\ exit_code = -1

InitChecks ==
  \/ \E m \in Modes, e \in EpsGrid, c \in CPGrid, g \in GammaGrid, t \in TGrid :
       AtDispatch("core_banach", m, e, c, DefaultLedgerSigma, [core_params |-> [gamma |-> g, t |-> t]])
  \/ \E m \in Modes, e \in LedgerEpsGrid, sg \in LedgerSigmaGrid,
        q \in SeqsUpTo(LedgerStepGrid, MaxSteps) :
       AtDispatch("ledger", m, e, DefaultCP, sg, [steps |-> q])
  \/ \E k1 \in KappaGrid, k2 \in KappaGrid, e1 \in EtaGrid, e2 \in EtaGrid :
       AtDispatch("coupled_stream", <<FALSE, FALSE>>, 0, DefaultCP, DefaultLedgerSigma,
                  [stream_params |-> [kappa1 |-> k1, kappa2 |-> k2, eta1 |-> e1, eta2 |-> e2]])

NextChecks ==
  \/ RunCore
  \/ LedgerEnter
  \/ LedgerIter
  \/ LedgerReturn
  \/ RunCoupled

SpecChecks == InitChecks /\ [][NextChecks]_vars

\* ------------------------------------------------------------------------
\* Properties
\* ------------------------------------------------------------------------

\* Every number main holds is a float of the format.
FloatsOnly == IsFloat(eps) /\ IsFloat(cP) /\ IsFloat(sigma) /\ IsFloat(worst_gap) /\ IsFloat(gap)

Loaded == args.create_example = "none" /\ args.json /\ file = "ok"
Exited(type) == pc = "exit" /\ Loaded /\ args.type = type
Verdict(type) == Exited(type) /\ outcome = "verdict"

StepFields == {"gamma", "t", "delta_tau"}
StreamFields == {"kappa1", "kappa2", "eta1", "eta2"}

\* A block or field that check `type` requires is missing from manifest d.
MissingRequired(type, d) ==
  CASE type = "core_banach" ->
         ~Has(d, "core_params") \/ ~({"gamma", "t"} \subseteq DOMAIN d["core_params"])
    [] type = "ledger" ->
         ~Has(d, "steps")
         \/ \E k \in 1..Len(d["steps"]) : ~(StepFields \subseteq DOMAIN d["steps"][k])
    [] type = "coupled_stream" ->
         ~Has(d, "stream_params") \/ ~(StreamFields \subseteq DOMAIN d["stream_params"])

\* C1: the ledger check returns a failing verdict whenever the manifest's steps
\* sequence is empty, in every mode and for every eps, c_P and sigma.
C1_EmptyStepsFail ==
  (Verdict("ledger") /\ Has(data, "steps") /\ data["steps"] = <<>>) => ~ok

\* C2: when a block or field the selected check requires is missing from the
\* manifest, the run never produces a verdict and ends in an input error.
C2_MissingFieldIsInputError ==
  (Loaded /\ MissingRequired(args.type, data)) =>
     /\ outcome # "verdict"
     /\ pc = "exit" => outcome = "exception"

\* C3: run on a manifest path, main exits with a success code exactly when the
\* verdict is pass, a failure code exactly when the verdict is fail, and a third
\* usage-error code when no manifest path is given or the manifest is unreadable
\* or malformed; an input error never ends with the code of a fail verdict.
C3_ExitCodesDisjoint ==
  (pc = "exit" /\ args.create_example = "none") =>
     /\ exit_code = 0 <=> (outcome = "verdict" /\ ok)
     /\ exit_code = 1 <=> (outcome = "verdict" /\ ~ok)
     /\ (~args.json \/ file # "ok") => exit_code = 2
     /\ outcome # "verdict" => exit_code \notin {0, 1}

\* The exact (real-number) comparison g * (1 + t*c) <= 1 - e of floats g, t, c, e:
\* in quanta, g * (One^2 + t*c) <= (One - e) * One^2, with the left product
\* split at One so that no intermediate leaves 32 bits.
ExactCoreLe(g, t, c, e) ==
  LET A   == One * One + t * c
      Ah  == A \div One
      Al  == A % One
      Y   == g * Al
      hi  == g * Ah + (Y \div One)
      lo  == Y % One
      rhs == (One - e) * One
  IN  hi < rhs \/ (hi = rhs /\ lo = 0)

CoreGamma == data["core_params"]["gamma"]
CoreT == data["core_params"]["t"]

\* C4: in interval mode core_banach_ok never reports pass when the exact
\* inequality gamma * (1 + t * c_P) <= 1 - eps is false.
C4_IntervalPassIsExact ==
  (Verdict("core_banach") /\ args.interval /\ ok) => ExactCoreLe(CoreGamma, CoreT, cP, eps)

\* The core check on the state's inputs with t or gamma replaced.
CoreWith(g, t) ==
  core_banach_ok([core_params |-> [gamma |-> g, t |-> t]], eps, cP, args.interval, args.verified)

\* C5 as claimed: after a fail, any larger t or any larger gamma still fails,
\* whatever the signs of gamma, t and c_P.
C5_MonotoneAnySign ==
  (Verdict("core_banach") /\ ~ok) =>
     /\ \A t2 \in TGrid : t2 > CoreT => ~CoreWith(CoreGamma, t2).ok
     /\ \A g2 \in GammaGrid : g2 > CoreGamma => ~CoreWith(g2, CoreT).ok

SameSign(a, b) == (a >= 0 /\ b >= 0) \/ (a <= 0 /\ b <= 0)

\* C5 as amended: after a fail, a larger t still fails when gamma and c_P have
\* the same sign, and a larger gamma still fails when t and c_P have the same sign.
C5_MonotoneSameSign ==
  (Verdict("core_banach") /\ ~ok) =>
     /\ SameSign(CoreGamma, cP) =>
          \A t2 \in TGrid : t2 > CoreT => ~CoreWith(CoreGamma, t2).ok
     /\ SameSign(CoreT, cP) =>
          \A g2 \in GammaGrid : g2 > CoreGamma => ~CoreWith(g2, CoreT).ok

\* A fail that both halves of C5 speak about: gamma, t, c_P > 0, and a larger t
\* and a larger gamma in the grid.
C5_Witness ==
  /\ Verdict("core_banach") /\ ~ok
  /\ CoreGamma > 0 /\ CoreT > 0 /\ cP > 0
  /\ \E t2 \in TGrid : t2 > CoreT
  /\ \E g2 \in GammaGrid : g2 > CoreGamma

LedgerResults ==
  {ledger_step(Steps(data)[k], eps, cP, sigma, args.interval, args.verified) :
     k \in 1..Len(Steps(data))}

\* C6: the ledger's verdict is the AND of the per-step verdicts and its worst
\* gap the largest per-step gap (or the initial -1e9), each step judged from its
\* own fields and the shared eps, c_P, sigma alone: a function of the set of
\* steps, not of their order.
C6_LedgerIsAndOfSteps ==
  Verdict("ledger") =>
     /\ ok = (\A r \in LedgerResults : r.ok)
     /\ gap = SetMax({WorstGapInit} \cup {r.gap : r \in LedgerResults})

\* Two steps, the first failing and the second passing with the smaller gap.
C6_Witness ==
  /\ Verdict("ledger") /\ Len(Steps(data)) = 2 /\ ~ok
  /\ LET r1 == ledger_step(Steps(data)[1], eps, cP, sigma, args.interval, args.verified)
         r2 == ledger_step(Steps(data)[2], eps, cP, sigma, args.interval, args.verified)
     IN  ~r1.ok /\ r2.ok /\ r2.gap < r1.gap /\ gap = r1.gap

StreamParams == data["stream_params"]
StreamMin == Min2(StreamParams["kappa1"], StreamParams["kappa2"])
StreamCoupling ==
  FMul(2 * One, FSqrt(FMul(Max2(StreamParams["eta1"], 0), Max2(StreamParams["eta2"], 0))))

\* C7: coupled_ok passes exactly when min(kappa1, kappa2) > 2*sqrt(max(eta1,0)*max(eta2,0));
\* eps_eff is strictly positive on a pass and exactly 0.0 on a fail.
C7_CoupledVerdictAndMargin ==
  Verdict("coupled_stream") =>
     /\ ok <=> StreamMin > StreamCoupling
     /\ ok => gap > 0
     /\ ~ok => gap = 0

\* A fail whose true gap min - coupling is negative, with a positive coupling.
C7_Witness ==
  /\ Verdict("coupled_stream") /\ ~ok /\ gap = 0
  /\ StreamCoupling > 0
  /\ FSub(StreamMin, StreamCoupling) < 0

\* C8: core_banach_ok returns a pass only with a margin <= 0 and a fail only
\* with a margin > 0, in every mode.
C8_MarginSignMatchesVerdict ==
  Verdict("core_banach") =>
     /\ ok => gap <= 0
     /\ ~ok => gap > 0

WitnessDefault(k) ==
  CASE k = "alpha" -> Round(99 * One, 100)
    [] k = "beta" -> One
    [] k = "sigma" -> One
    [] k = "delta_tau_min" -> Round(One, 10)

WitnessField(k) == IF k \in DOMAIN data THEN data[k] ELSE WitnessDefault(k)

\* C9: once main has chosen eps, it is the --eps override when one was given,
\* whatever the manifest holds, and otherwise alpha^beta * exp(-sigma * delta_tau_min)
\* with each absent witness field replaced by 0.99, 1.0, 1.0, 0.1.
C9_EpsSelection ==
  (Loaded /\ pc \in {"dispatch", "ledger", "exit"}) =>
     eps = IF args.eps # <<>>
           THEN args.eps[1]
           ELSE FMul(FPow(WitnessField("alpha"), WitnessField("beta")),
                     FExp(FMul(-WitnessField("sigma"), WitnessField("delta_tau_min"))))

\* No override, beta and sigma from the manifest, alpha and delta_tau_min defaulted.
C9_Witness ==
  /\ Loaded /\ pc = "dispatch" /\ args.eps = <<>>
  /\ DOMAIN data \cap DOMAIN WitnessValues = {"beta", "sigma"}
  /\ eps # 0

CoreIn(interval, verified) == core_banach_ok(data, eps, cP, interval, verified)
StepIn(k, interval, verified) ==
  ledger_step(Steps(data)[k], eps, cP, sigma, interval, verified)

\* C10: on the same inputs a scalar pass is a verified-scalar pass, for the core
\* check and for every ledger step, and with both flags set the result is the
\* interval mode's.
C10_ModeOrder ==
  /\ Verdict("core_banach") =>
       /\ CoreIn(FALSE, FALSE).ok => CoreIn(FALSE, TRUE).ok
       /\ (~args.interval /\ args.verified /\ CoreIn(FALSE, FALSE).ok) => ok
       /\ (args.interval /\ args.verified) =>
            (ok = CoreIn(TRUE, FALSE).ok /\ gap = CoreIn(TRUE, FALSE).gap)
  /\ Verdict("ledger") =>
       /\ \A k \in 1..Len(Steps(data)) :
            /\ StepIn(k, FALSE, FALSE).ok => StepIn(k, FALSE, TRUE).ok
            /\ StepIn(k, TRUE, TRUE) = StepIn(k, TRUE, FALSE)
       /\ (~args.interval /\ args.verified /\ \A k \in 1..Len(Steps(data)) : StepIn(k, FALSE, FALSE).ok)
            => ok
       /\ (args.interval /\ args.verified) =>
            ok = (\A k \in 1..Len(Steps(data)) : StepIn(k, TRUE, FALSE).ok)

\* A verified-scalar pass of the core check on inputs the plain scalar mode
\* fails: lhs > rhs within one nudge on each side.
C10_Witness ==
  /\ Verdict("core_banach") /\ ~args.interval /\ args.verified /\ ok
  /\ ~CoreIn(FALSE, FALSE).ok

====
